---------------------------- MODULE Spec2Model ----------------------------
(***************************************************************************)
(* Paranoid-Hash (src/src/lib.rs): the configuration constructor, the five *)
(* hashing entry points, the hex codec and the comparator compare_hash.    *)
(*                                                                         *)
(* Strings are sequences of Unicode code points, byte buffers sequences of *)
(* numbers in 0..255; Utf8 gives the bytes of a string.  BLAKE2b and the   *)
(* SHA family are library primitives: they are represented by stand-in     *)
(* digests that keep what the callers rely on (a deterministic function of *)
(* output length, key and data with the library's output length).          *)
(***************************************************************************)
EXTENDS Integers, Sequences, FiniteSets, TLC

VARIABLES ctx, ctor, file, call, prev, cmp, codec

vars == <<ctx, ctor, file, call, prev, cmp, codec>>

(***************************************************************************)
(* Bounds of the model and the input samples                               *)
(***************************************************************************)
\* constructor arguments 0..MaxDigestArg in SpecConfig
MaxDigestArg == 66
\* constructor arguments 0..MaxLowArg and the two around 64 in Spec
MaxLowArg == 1
\* keys of read_with_key have at most MaxKeyLen bytes
MaxKeyLen == 1
\* inputs of compare_hash have at most MaxStrLen characters
MaxStrLen == 2
\* inputs of decode_from_hex have at most MaxHexLen characters
MaxHexLen == 4
\* inputs of encode_upper have at most MaxBytesLen bytes
MaxBytesLen == 2

\* the largest BLAKE2b digest size new() accepts
MAX_DIGEST == 64

RECURSIVE SeqsUpTo(_, _)
SeqsUpTo(S, n) ==
    IF n = 0 THEN {<<>>}
    ELSE LET shorter == SeqsUpTo(S, n - 1)
         IN  shorter \cup {Append(s, x) : s \in {t \in shorter : Len(t) = n - 1}, x \in S}

\* 'A' 'a' '1', KELVIN SIGN (U+212A, lowercases to 'k') and 'k'
CompareChars == {65, 97, 49, 8490, 107}
\* the strings of the repository's documentation of case-insensitivity
STR_AB12_UPPER == <<65, 66, 49, 50>>
STR_AB12_LOWER == <<97, 98, 49, 50>>
CompareInputs == SeqsUpTo(CompareChars, MaxStrLen) \cup {STR_AB12_UPPER, STR_AB12_LOWER}

\* '0' '9' 'a' 'F' 'g' and e-acute (U+00E9, two bytes in UTF-8)
HexInputChars == {48, 57, 97, 70, 103, 233}
HexInputs == SeqsUpTo(HexInputChars, MaxHexLen) \cup {STR_AB12_UPPER, STR_AB12_LOWER}
ByteSamples == {0, 10, 171, 255}
BytesInputs == SeqsUpTo(ByteSamples, MaxBytesLen)

\* file contents: "Hi", "Ho" and the empty file
FileContents == {<<72, 105>>, <<72, 111>>, <<>>}
\* read_str arguments: "Hi" and "e-acute"
StrInputs == {<<72, 105>>, <<233>>}
\* read_bytes arguments: "Hi" and the UTF-8 bytes of e-acute
DataInputs == {<<72, 105>>, <<195, 169>>}
Keys == SeqsUpTo({7}, MaxKeyLen)
DigestArgs == (0 .. MaxLowArg) \cup (MAX_DIGEST .. (MAX_DIGEST + 1))

(***************************************************************************)
(* Strings and bytes                                                       *)
(***************************************************************************)
\* str::as_bytes / str::len / str::bytes: the UTF-8 encoding of a string
Utf8Char(cp) ==
    IF cp < 128 THEN <<cp>>
    ELSE IF cp < 2048 THEN <<192 + (cp \div 64), 128 + (cp % 64)>>
    ELSE <<224 + (cp \div 4096), 128 + ((cp \div 64) % 64), 128 + (cp % 64)>>

RECURSIVE Utf8(_)
Utf8(s) ==
    IF Len(s) = 0 THEN <<>>
    ELSE IF Len(s) = 1 THEN Utf8Char(s[1])
    ELSE Utf8(SubSeq(s, 1, Len(s) \div 2)) \o Utf8(SubSeq(s, (Len(s) \div 2) + 1, Len(s)))

\* char::to_lowercase on ASCII, Latin-1 and the Kelvin sign
LowerChar(cp) ==
    IF cp >= 65 /\ cp <= 90 THEN cp + 32
    ELSE IF cp >= 192 /\ cp <= 222 /\ cp # 215 THEN cp + 32
    ELSE IF cp = 8490 THEN 107
    ELSE cp

\* str::to_lowercase
ToLowercase(s) == [i \in 1 .. Len(s) |-> LowerChar(s[i])]

\* u8 ^ u8
RECURSIVE BitXor(_, _)
BitXor(a, b) ==
    IF a = 0 THEN b
    ELSE IF b = 0 THEN a
    ELSE 2 * BitXor(a \div 2, b \div 2) + (((a % 2) + (b % 2)) % 2)

\* u8 | u8
RECURSIVE BitOr(_, _)
BitOr(a, b) ==
    IF a = 0 THEN b
    ELSE IF b = 0 THEN a
    ELSE 2 * BitOr(a \div 2, b \div 2) + (IF a % 2 = 1 \/ b % 2 = 1 THEN 1 ELSE 0)

(***************************************************************************)
(* Hex codec (the hex crate as lib.rs calls it)                            *)
(***************************************************************************)
HexCharsLower == <<48, 49, 50, 51, 52, 53, 54, 55, 56, 57, 97, 98, 99, 100, 101, 102>>

\* the table of hex::encode_upper: "0123456789ABCDEF"
HexCharsUpper == <<48, 49, 50, 51, 52, 53, 54, 55, 56, 57, 65, 66, 67, 68, 69, 70>>

\* hex::encode_upper: two characters per byte, high nibble first
HexEncodeUpper(bytes) ==
    [i \in 1 .. (2 * Len(bytes)) |->
        IF i % 2 = 1
        THEN HexCharsUpper[(bytes[(i + 1) \div 2] \div 16) + 1]
        ELSE HexCharsUpper[(bytes[i \div 2] % 16) + 1]]

HexValNoOffset(c) ==
    IF c >= 65 /\ c <= 70 THEN c - 65 + 10
    ELSE IF c >= 97 /\ c <= 102 THEN c - 97
    ELSE IF c >= 48 /\ c <= 57 THEN c - 48
    ELSE -1

\* hex's val(): the value of one hex digit, -1 for InvalidHexCharacter
HexVal(c) ==
    IF c >= 65 /\ c <= 70 THEN c - 65 + 10
    ELSE IF c >= 97 /\ c <= 102 THEN c - 97 + 10
    ELSE IF c >= 48 /\ c <= 57 THEN c - 48
    ELSE -1

\* hex::decode on the bytes of the string: ok is FALSE for Err(OddLength) and
\* Err(InvalidHexCharacter)
HexDecode(s) ==
    LET data == Utf8(s)
    IN  IF Len(data) % 2 # 0 THEN [ok |-> FALSE, val |-> <<>>]
        ELSE IF \E i \in 1 .. Len(data) : HexVal(data[i]) < 0 THEN [ok |-> FALSE, val |-> <<>>]
        ELSE [ok |-> TRUE,
              val |-> [i \in 1 .. (Len(data) \div 2) |->
                          HexVal(data[2 * i - 1]) * 16 + HexVal(data[2 * i])]]

IdleCodec == [pc |-> "idle", first |-> "none", bytes |-> <<>>, str |-> <<>>,
              out1 |-> <<>>, out2 |-> <<>>]

\* hex::encode_upper applied to a byte sequence
EncodeUpper(b) ==
    /\ codec.pc = "idle"
    /\ codec' = [IdleCodec EXCEPT !.pc = "one", !.first = "encode", !.bytes = b,
                                  !.out1 = HexEncodeUpper(b)]
    /\ UNCHANGED <<ctx, ctor, file, call, prev, cmp>>

\* ParanoidHash::decode_from_hex: hex::decode(s).unwrap(), a panic on Err
decode_from_hex(s) ==
    /\ codec.pc = "idle"
    /\ codec' = [IdleCodec EXCEPT !.pc = IF HexDecode(s).ok THEN "one" ELSE "panicked",
                                  !.first = "decode", !.str = s,
                                  !.out1 = HexDecode(s).val]
    /\ UNCHANGED <<ctx, ctor, file, call, prev, cmp>>

\* decode_from_hex applied to what encode_upper returned
DecodeEncoded ==
    /\ codec.pc = "one"
    /\ codec.first = "encode"
    /\ codec' = [codec EXCEPT !.pc = IF HexDecode(codec.out1).ok THEN "two" ELSE "panicked",
                              !.out2 = HexDecode(codec.out1).val]
    /\ UNCHANGED <<ctx, ctor, file, call, prev, cmp>>

\* encode_upper applied to what decode_from_hex returned
EncodeDecoded ==
    /\ codec.pc = "one"
    /\ codec.first = "decode"
    /\ codec' = [codec EXCEPT !.pc = "two", !.out2 = HexEncodeUpper(codec.out1)]
    /\ UNCHANGED <<ctx, ctor, file, call, prev, cmp>>

\* the caller drops the results (after a panic: the next run)
CodecDone ==
    /\ codec.pc \in {"two", "panicked"}
    /\ codec' = IdleCodec
    /\ UNCHANGED <<ctx, ctor, file, call, prev, cmp>>

(***************************************************************************)
(* compare_hash                                                            *)
(***************************************************************************)
IdleCmp == [pc |-> "idle", hash1 |-> <<>>, hash2 |-> <<>>, l1 |-> <<>>, l2 |-> <<>>,
            i |-> 0, acc |-> 0, visited |-> <<>>, result |-> FALSE]

LengthMismatchNever(l1, l2) == FALSE

\* hash1_lowercase.len() != hash2_lowercase.len()
LengthMismatch(l1, l2) == Len(l1) # Len(l2)

FoldCombineXor(acc, a, b) == BitXor(acc, BitXor(a, b))

\* the fold's closure: acc | (a ^ b)
FoldCombine(acc, a, b) == BitOr(acc, BitXor(a, b))

FoldHasNextEarlyExit(c) == c.i < Len(c.l1) /\ c.i < Len(c.l2) /\ c.acc = 0

\* zip(...).fold: there is a next pair while both iterators have a byte left
FoldHasNext(c) == c.i < Len(c.l1) /\ c.i < Len(c.l2)

\* compare_hash entered: both arguments are lowercased
CompareHash(h1, h2) ==
    /\ cmp.pc = "idle"
    /\ cmp' = [IdleCmp EXCEPT !.pc = "len", !.hash1 = h1, !.hash2 = h2,
                              !.l1 = Utf8(ToLowercase(h1)),
                              !.l2 = Utf8(ToLowercase(h2))]
    /\ UNCHANGED <<ctx, ctor, file, call, prev, codec>>

\* the length check and its early return
LengthCheck ==
    /\ cmp.pc = "len"
    /\ cmp' = IF LengthMismatch(cmp.l1, cmp.l2)
              THEN [cmp EXCEPT !.pc = "done", !.result = FALSE]
              ELSE [cmp EXCEPT !.pc = "fold"]
    /\ UNCHANGED <<ctx, ctor, file, call, prev, codec>>

\* one step of the fold over the zipped bytes
FoldStep ==
    /\ cmp.pc = "fold"
    /\ FoldHasNext(cmp)
    /\ cmp' = [cmp EXCEPT !.i = cmp.i + 1,
                          !.acc = FoldCombine(cmp.acc, cmp.l1[cmp.i + 1], cmp.l2[cmp.i + 1]),
                          !.visited = Append(cmp.visited, cmp.i + 1)]
    /\ UNCHANGED <<ctx, ctor, file, call, prev, codec>>

\* the fold is exhausted: the result is acc == 0
FoldFinish ==
    /\ cmp.pc = "fold"
    /\ ~FoldHasNext(cmp)
    /\ cmp' = [cmp EXCEPT !.pc = "done", !.result = (cmp.acc = 0)]
    /\ UNCHANGED <<ctx, ctor, file, call, prev, codec>>

\* compare_hash returns to its caller
CompareReturn ==
    /\ cmp.pc = "done"
    /\ cmp' = IdleCmp
    /\ UNCHANGED <<ctx, ctor, file, call, prev, codec>>

(***************************************************************************)
(* Configuration                                                           *)
(***************************************************************************)
\* enum OsAlgorithm
OsAlgorithm == {"SHA1", "SHA256", "SHA512"}

\* no ParanoidHash value exists
NoContext == [digest_size |-> 0, os_hash_function |-> "none"]

NoCtor == [fn |-> "none", outcome |-> "none", digest |-> 0, os_hash |-> "none",
           ret |-> NoContext]

ValidDigestZeroAllowed(digest) == digest <= MAX_DIGEST

\* the guard of new(): digest > 0 && digest <= 64
ValidDigest(digest) == digest > 0 /\ digest <= MAX_DIGEST

\* ParanoidHash::new: the struct, or the panic of the else branch (ok is FALSE)
new(digest, os_hash) ==
    IF ValidDigest(digest)
    THEN [ok |-> TRUE, val |-> [digest_size |-> digest, os_hash_function |-> os_hash]]
    ELSE [ok |-> FALSE, val |-> NoContext]

\* impl Default for ParanoidHash
default == [digest_size |-> 64, os_hash_function |-> "SHA512"]

\* ParanoidHash::return_digest_size
return_digest_size(self) == self.digest_size

\* ParanoidHash::return_os_hash_algorithm
return_os_hash_algorithm(self) == self.os_hash_function

\* every value new() can return
AllContexts == {new(d, a).val : d \in 1 .. MAX_DIGEST, a \in OsAlgorithm}

(***************************************************************************)
(* Digest primitives and the hashing entry points                          *)
(***************************************************************************)
RECURSIVE Absorb(_, _)
Absorb(h, data) ==
    IF data = <<>> THEN h
    ELSE Absorb((h * 31 + Head(data) + 1) % 65521, Tail(data))

\* Blake2b::new(nn) / Blake2b::with_key(nn, key), update(data), finalize(): nn
\* bytes that depend on nn, the key and the data; the empty key is the unkeyed hash
\* (the library accepts keys of at most 64 bytes; Keys stays below that)
Blake2b(nn, key, data) ==
    LET h == Absorb(Absorb(nn + 256 * Len(key), key), data)
    IN  [i \in 1 .. nn |-> (h + 13 * i) % 256]

\* the output length in bytes of the crypto_hash algorithm
OsDigestLen(alg) ==
    CASE alg = "SHA1" -> 20
      [] alg = "SHA256" -> 32
      [] alg = "SHA512" -> 64

\* Hasher::new(alg), write_all(data), finish()
OsDigest(alg, data) ==
    LET h == Absorb(OsDigestLen(alg), data)
    IN  [i \in 1 .. OsDigestLen(alg) |-> (h + 17 * i) % 256]

NoResult == [tag |-> "none", pair |-> <<<<>>, <<>>>>, err |-> "none"]
Ok(pair) == [tag |-> "Ok", pair |-> pair, err |-> "none"]
Err(e) == [tag |-> "Err", pair |-> <<<<>>, <<>>>>, err |-> e]

IdleCall == [pc |-> "idle", op |-> "none", key |-> <<>>, arg |-> <<>>, buf |-> <<>>,
             hash |-> <<>>, seenBlake |-> <<>>, seenOs |-> <<>>, sawExists |-> "unchecked",
             opens |-> 0, digests |-> 0, fault |-> "none", self |-> NoContext,
             result |-> NoResult]

FileOps == {"read", "read_with_key", "read_using_std"}
\* the entry points that hold the file as a FileBuffer (a memory map)
MmapOps == {"read", "read_with_key"}

\* ParanoidHash::read_bytes, when the hasher accepts the write
read_bytes(self, bytes) ==
    <<HexEncodeUpper(Blake2b(self.digest_size, <<>>, bytes)),
      HexEncodeUpper(OsDigest(self.os_hash_function, bytes))>>

read_str_latin1(self, string) ==
    <<HexEncodeUpper(Blake2b(self.digest_size, <<>>, [i \in 1 .. Len(string) |-> string[i] % 256])),
      HexEncodeUpper(OsDigest(self.os_hash_function, [i \in 1 .. Len(string) |-> string[i] % 256]))>>

\* ParanoidHash::read_str, when the hasher accepts the write
read_str(self, string) ==
    <<HexEncodeUpper(Blake2b(self.digest_size, <<>>, Utf8(string))),
      HexEncodeUpper(OsDigest(self.os_hash_function, Utf8(string)))>>

CanCall ==
    /\ call.pc = "idle"
    /\ ctx # NoContext
    /\ ctor.outcome # "panicked"

\* ParanoidHash::new called with (d, alg)
New(d, alg) ==
    /\ call.pc = "idle"
    /\ ctor.outcome # "panicked"
    /\ ctor' = [fn |-> "new", outcome |-> IF new(d, alg).ok THEN "returned" ELSE "panicked",
                digest |-> d, os_hash |-> alg, ret |-> new(d, alg).val]
    /\ ctx' = IF new(d, alg).ok THEN new(d, alg).val ELSE ctx
    /\ prev' = IF new(d, alg).ok THEN IdleCall ELSE prev
    /\ UNCHANGED <<file, call, cmp, codec>>

\* ParanoidHash::default called
Default ==
    /\ call.pc = "idle"
    /\ ctor.outcome # "panicked"
    /\ ctor' = [fn |-> "default", outcome |-> "returned", digest |-> 0, os_hash |-> "none",
                ret |-> default]
    /\ ctx' = default
    /\ prev' = IdleCall
    /\ UNCHANGED <<file, call, cmp, codec>>

\* read(path) entered
Read ==
    /\ CanCall
    /\ call' = [IdleCall EXCEPT !.pc = "exists", !.op = "read", !.self = ctx]
    /\ ctor' = NoCtor
    /\ UNCHANGED <<ctx, file, prev, cmp, codec>>

\* read_with_key(path, key) entered
ReadWithKey(key) ==
    /\ CanCall
    /\ call' = [IdleCall EXCEPT !.pc = "exists", !.op = "read_with_key", !.key = key,
                                !.self = ctx]
    /\ ctor' = NoCtor
    /\ UNCHANGED <<ctx, file, prev, cmp, codec>>

\* read_using_std(path) entered
ReadUsingStd ==
    /\ CanCall
    /\ call' = [IdleCall EXCEPT !.pc = "exists", !.op = "read_using_std", !.self = ctx]
    /\ ctor' = NoCtor
    /\ UNCHANGED <<ctx, file, prev, cmp, codec>>

NotFoundNever(does_file_exist) == FALSE

\* does_file_exist == false
NotFound(does_file_exist) == does_file_exist = FALSE

\* path.as_ref().exists() and the early return of Err(FileNotFound)
CheckExists ==
    /\ call.pc = "exists"
    /\ call' = IF NotFound(file.exists)
               THEN [call EXCEPT !.pc = "done", !.result = Err("FileNotFound"),
                                 !.sawExists = IF file.exists THEN "present" ELSE "absent"]
               ELSE [call EXCEPT !.pc = "open",
                                 !.sawExists = IF file.exists THEN "present" ELSE "absent"]
    /\ UNCHANGED <<ctx, ctor, file, prev, cmp, codec>>

\* FileBuffer::open(path).expect(..) / fs::read(path).expect(..): the contents, or
\* a panic when the file is gone or cannot be read
OpenFile ==
    /\ call.pc = "open"
    /\ call' = IF file.exists /\ file.readable
               THEN [call EXCEPT !.pc = "blake", !.buf = file.content,
                                 !.opens = call.opens + 1]
               ELSE [call EXCEPT !.pc = "panicked", !.fault = "open",
                                 !.opens = call.opens + 1]
    /\ UNCHANGED <<ctx, ctor, file, prev, cmp, codec>>

\* the key of the Blake2b context: with_key(digest_size, key) in read_with_key,
\* new(digest_size) in the others
Blake2bKey(c) == IF c.op = "read_with_key" THEN c.key ELSE <<>>

\* Blake2b context, update(&fbuffer), finalize()
Blake2bStep ==
    /\ call.pc = "blake"
    /\ call' = [call EXCEPT !.pc = "os",
                            !.hash = Blake2b(ctx.digest_size, Blake2bKey(call), call.buf),
                            !.seenBlake = call.buf,
                            !.digests = call.digests + 1]
    /\ UNCHANGED <<ctx, ctor, file, prev, cmp, codec>>

OsWrittenKeyed(c) == c.key \o c.buf

\* what is written to os_hasher: write_all(&fbuffer)
OsWritten(c) == c.buf

\* os_hasher.write_all(..).expect(..), finish(), and the return of the encoded pair;
\* a write the hasher rejects panics
OsHashStep(accepted) ==
    /\ call.pc = "os"
    /\ call' = IF accepted
               THEN [call EXCEPT !.pc = "done", !.seenOs = call.buf,
                                 !.digests = call.digests + 1,
                                 !.result = Ok(<<HexEncodeUpper(call.hash),
                                                 HexEncodeUpper(OsDigest(ctx.os_hash_function,
                                                                         OsWritten(call)))>>)]
               ELSE [call EXCEPT !.pc = "panicked", !.fault = "oswrite"]
    /\ UNCHANGED <<ctx, ctor, file, prev, cmp, codec>>

\* read_str(string) called
ReadStr(string, accepted) ==
    /\ CanCall
    /\ call' = IF accepted
               THEN [IdleCall EXCEPT !.pc = "done", !.op = "read_str", !.arg = string,
                                     !.digests = 2, !.self = ctx,
                                     !.result = Ok(read_str(ctx, string))]
               ELSE [IdleCall EXCEPT !.pc = "panicked", !.op = "read_str", !.arg = string,
                                     !.digests = 1, !.self = ctx, !.fault = "oswrite"]
    /\ ctor' = NoCtor
    /\ UNCHANGED <<ctx, file, prev, cmp, codec>>

\* read_bytes(bytes) called
ReadBytes(bytes, accepted) ==
    /\ CanCall
    /\ call' = IF accepted
               THEN [IdleCall EXCEPT !.pc = "done", !.op = "read_bytes", !.arg = bytes,
                                     !.digests = 2, !.self = ctx,
                                     !.result = Ok(read_bytes(ctx, bytes))]
               ELSE [IdleCall EXCEPT !.pc = "panicked", !.op = "read_bytes", !.arg = bytes,
                                     !.digests = 1, !.self = ctx, !.fault = "oswrite"]
    /\ ctor' = NoCtor
    /\ UNCHANGED <<ctx, file, prev, cmp, codec>>

\* the call returns; the caller keeps the last pair it was given
Return ==
    /\ call.pc = "done"
    /\ prev' = IF call.result.tag = "Ok" THEN call ELSE prev
    /\ call' = IdleCall
    /\ UNCHANGED <<ctx, ctor, file, cmp, codec>>

\* a panic ends the run: every value of the program is gone, the file stays
Abort ==
    /\ call.pc = "panicked" \/ ctor.outcome = "panicked"
    /\ ctx' = NoContext
    /\ ctor' = NoCtor
    /\ call' = IdleCall
    /\ prev' = IdleCall
    /\ UNCHANGED <<file, cmp, codec>>

(***************************************************************************)
(* The file system, changed by other processes at any time                 *)
(***************************************************************************)
NoFile == [exists |-> FALSE, readable |-> FALSE, content |-> <<>>]

\* another process overwrites the file in place; a memory map shows the new bytes
EnvWrite(c) ==
    /\ file.exists
    /\ c # file.content
    /\ Len(c) = Len(file.content)
    /\ file' = [file EXCEPT !.content = c]
    /\ call' = IF call.op \in MmapOps /\ call.pc \in {"blake", "os"}
               THEN [call EXCEPT !.buf = c]
               ELSE call
    /\ UNCHANGED <<ctx, ctor, prev, cmp, codec>>

\* another process removes the file
EnvDelete ==
    /\ file.exists
    /\ file' = NoFile
    /\ UNCHANGED <<ctx, ctor, call, prev, cmp, codec>>

\* another process creates the file
EnvCreate(c) ==
    /\ ~file.exists
    /\ file' = [exists |-> TRUE, readable |-> TRUE, content |-> c]
    /\ UNCHANGED <<ctx, ctor, call, prev, cmp, codec>>

\* another process changes the permissions of the file
EnvChmod ==
    /\ file.exists
    /\ file' = [file EXCEPT !.readable = ~file.readable]
    /\ UNCHANGED <<ctx, ctor, call, prev, cmp, codec>>

(***************************************************************************)
(* Specifications                                                          *)
(***************************************************************************)
Init ==
    /\ ctx = NoContext
    /\ ctor = NoCtor
    /\ file = NoFile
    /\ call = IdleCall
    /\ prev = IdleCall
    /\ cmp = IdleCmp
    /\ codec = IdleCodec

Steps ==
    \/ CheckExists
    \/ OpenFile
    \/ Blake2bStep
    \/ \E accepted \in BOOLEAN : OsHashStep(accepted)
    \/ Return
    \/ Abort

Next ==
    \/ \E d \in DigestArgs, alg \in OsAlgorithm : New(d, alg)
    \/ Default
    \/ Read
    \/ \E key \in Keys : ReadWithKey(key)
    \/ ReadUsingStd
    \/ \E s \in StrInputs, accepted \in BOOLEAN : ReadStr(s, accepted)
    \/ \E b \in DataInputs, accepted \in BOOLEAN : ReadBytes(b, accepted)
    \/ Steps
    \/ \E c \in FileContents : EnvWrite(c)
    \/ EnvDelete
    \/ \E c \in FileContents : EnvCreate(c)
    \/ EnvChmod

\* the hashing entry points and the file system
Spec == Init /\ [][Next]_vars

NextConfig ==
    \/ \E d \in 0 .. MaxDigestArg, alg \in OsAlgorithm : New(d, alg)
    \/ Default
    \/ Abort

\* the constructors, over every argument up to MaxDigestArg
SpecConfig == Init /\ [][NextConfig]_vars

InitSizes ==
    /\ ctx \in AllContexts
    /\ ctor = NoCtor
    /\ file = [exists |-> TRUE, readable |-> TRUE, content |-> <<72, 105>>]
    /\ call = IdleCall
    /\ prev = IdleCall
    /\ cmp = IdleCmp
    /\ codec = IdleCodec

NextSizes ==
    \/ Read
    \/ \E key \in Keys : ReadWithKey(key)
    \/ ReadUsingStd
    \/ \E s \in StrInputs, accepted \in BOOLEAN : ReadStr(s, accepted)
    \/ \E b \in DataInputs, accepted \in BOOLEAN : ReadBytes(b, accepted)
    \/ Steps

\* the hashing entry points under every configuration new() can return
SpecSizes == InitSizes /\ [][NextSizes]_vars

NextCompare ==
    \/ cmp.pc = "idle" /\ \E h1 \in CompareInputs, h2 \in CompareInputs : CompareHash(h1, h2)
    \/ LengthCheck
    \/ FoldStep
    \/ FoldFinish
    \/ CompareReturn

\* compare_hash over the strings of CompareInputs
SpecCompare == Init /\ [][NextCompare]_vars

NextCodec ==
    \/ codec.pc = "idle" /\ \E b \in BytesInputs : EncodeUpper(b)
    \/ codec.pc = "idle" /\ \E s \in HexInputs : decode_from_hex(s)
    \/ DecodeEncoded
    \/ EncodeDecoded
    \/ CodecDone

\* the hex codec over the inputs of BytesInputs and HexInputs
SpecCodec == Init /\ [][NextCodec]_vars

(***************************************************************************)
(* Properties                                                              *)
(***************************************************************************)
\* str::to_uppercase on ASCII, as the properties use it
ToUppercaseAscii(s) == [i \in 1 .. Len(s) |-> IF s[i] >= 97 /\ s[i] <= 122 THEN s[i] - 32 ELSE s[i]]
\* the characters 0-9 and A-F
UpperHexAlphabet == (48 .. 57) \cup (65 .. 70)
\* the characters 0-9, A-F and a-f
HexAlphabet == UpperHexAlphabet \cup (97 .. 102)
WellFormedHex(s) == Len(s) % 2 = 0 /\ \A i \in 1 .. Len(s) : s[i] \in HexAlphabet
CmpDone == cmp.pc = "done"
CallOk(c) == c.pc = "done" /\ c.result.tag = "Ok"

C10_FoldVisitsEveryByte ==
    /\ cmp.pc \in {"fold", "done"} /\ Len(cmp.l1) = Len(cmp.l2) =>
           /\ cmp.visited = [k \in 1 .. cmp.i |-> k]
           /\ (CmpDone => cmp.i = Len(cmp.l1))
    /\ CmpDone /\ Len(cmp.l1) # Len(cmp.l2) => cmp.visited = <<>> /\ ~cmp.result
    /\ cmp.pc = "fold" => Len(cmp.l1) = Len(cmp.l2)

\* C10 witness: the inputs differ in their first byte and the fold still ran over
\* all of two or more bytes.
C10_Witness ==
    /\ CmpDone
    /\ Len(cmp.l1) = Len(cmp.l2)
    /\ Len(cmp.l1) >= 2
    /\ cmp.l1[1] # cmp.l2[1]
    /\ Len(cmp.visited) = Len(cmp.l1)

\* C7: decode_from_hex(encode_upper(b)) = b; encode_upper(decode_from_hex(s)) =
\* uppercase(s) for a well-formed even-length hex string s; decode_from_hex
\* returns no bytes for a string of odd length or with a non-hex character.
C7_HexRoundTrip ==
    /\ codec.first = "encode" => codec.pc # "panicked"
    /\ codec.first = "encode" /\ codec.pc = "two" => codec.out2 = codec.bytes
    /\ codec.first = "decode" => (codec.pc = "panicked" <=> ~WellFormedHex(codec.str))
    /\ codec.first = "decode" /\ codec.pc = "two" =>
           codec.out2 = ToUppercaseAscii(codec.str)

\* C7 witness: a hex string with a lowercase digit was decoded and encoded again.
C7_Witness ==
    /\ codec.first = "decode"
    /\ codec.pc = "two"
    /\ codec.str # codec.out2
    /\ Len(codec.out1) = 2

\* C5: new(d, alg) returns a configuration reporting exactly d and alg when
\* 1 <= d <= 64 and panics, returning none, when d = 0 or d > 64; default() is
\* (64, SHA512); every configuration has digest_size in 1..64.
C5_Construction ==
    /\ ctor.fn = "new" /\ ctor.digest >= 1 /\ ctor.digest <= 64 =>
           /\ ctor.outcome = "returned"
           /\ return_digest_size(ctor.ret) = ctor.digest
           /\ return_os_hash_algorithm(ctor.ret) = ctor.os_hash
           /\ ctx = ctor.ret
    /\ ctor.fn = "new" /\ (ctor.digest = 0 \/ ctor.digest > 64) =>
           /\ ctor.outcome = "panicked"
           /\ ctor.ret = NoContext
    /\ ctor.fn = "default" =>
           /\ return_digest_size(ctor.ret) = 64
           /\ return_os_hash_algorithm(ctor.ret) = "SHA512"
    /\ ctx # NoContext => ctx.digest_size \in 1 .. 64 /\ ctx.os_hash_function \in OsAlgorithm

\* C5 witness: new(65, _) panicked while a configuration of size 64 exists.
C5_Witness ==
    /\ ctor.fn = "new"
    /\ ctor.digest = 65
    /\ ctor.outcome = "panicked"
    /\ ctx.digest_size = 64

\* the bytes a call was given to hash
Content(c) ==
    CASE c.op = "read_str" -> Utf8(c.arg)
      [] c.op = "read_bytes" -> c.arg
      [] OTHER -> c.seenBlake
\* both digests of a file call saw the same bytes
Stable(c) == c.op \in FileOps => c.seenBlake = c.seenOs

\* C6: every hashing operation returns (portable, platform), portable first, with
\* 2n characters in portable, 40 / 64 / 128 in platform for SHA1 / SHA256 /
\* SHA512, all of them among 0-9 and A-F.
C6_PairShape ==
    CallOk(call) =>
        LET portable == call.result.pair[1]
            platform == call.result.pair[2]
        IN  /\ Len(portable) = 2 * ctx.digest_size
            /\ Len(platform) = (CASE ctx.os_hash_function = "SHA1" -> 40
                                  [] ctx.os_hash_function = "SHA256" -> 64
                                  [] ctx.os_hash_function = "SHA512" -> 128)
            /\ \A i \in 1 .. Len(portable) : portable[i] \in UpperHexAlphabet
            /\ \A i \in 1 .. Len(platform) : platform[i] \in UpperHexAlphabet
            /\ HexDecode(portable).val = Blake2b(ctx.digest_size, call.key, Content(call))

\* C6 witness: read_bytes returned under the configuration (33, SHA256).
C6_Witness ==
    /\ CallOk(call)
    /\ call.op = "read_bytes"
    /\ ctx = [digest_size |-> 33, os_hash_function |-> "SHA256"]
    /\ Len(call.result.pair[1]) = 66

\* C3: when the existence check of read, read_with_key or read_using_std finds
\* no file, the call returns Err(FileNotFound) without having opened or read the
\* file and without having computed a digest.
C3_FileNotFoundFirst ==
    call.op \in FileOps /\ call.sawExists = "absent" =>
        /\ call.pc = "done"
        /\ call.result = Err("FileNotFound")
        /\ call.opens = 0
        /\ call.digests = 0

\* C3 witness: read_using_std found no file and returned.
C3_Witness ==
    /\ call.op = "read_using_std"
    /\ call.sawExists = "absent"
    /\ call.pc = "done"

\* C4: an I/O failure of a file-hashing call (the file deleted or made unreadable
\* after the existence check, the platform hasher rejecting the write) reaches the
\* caller as an Err value, never as a panic.
C4_IoFailureIsErr ==
    call.op \in FileOps /\ (call.fault # "none" \/ call.pc = "panicked") =>
        /\ call.pc = "done"
        /\ call.result.tag = "Err"

\* C8: the platform digest of read_with_key(path, k) equals that of read(path) and
\* that of read_with_key under any other key, for the same file content.
C8_KeyLeavesPlatformDigest ==
    /\ CallOk(call)
    /\ CallOk(prev)
    /\ {call.op, prev.op} \subseteq {"read", "read_with_key"}
    /\ "read_with_key" \in {call.op, prev.op}
    /\ call.seenOs = prev.seenOs
    => call.result.pair[2] = prev.result.pair[2]

\* C8 witness: read and then read_with_key with a non-empty key hashed the same
\* content and their portable digests differ.
C8_Witness ==
    /\ CallOk(call)
    /\ CallOk(prev)
    /\ prev.op = "read"
    /\ call.op = "read_with_key"
    /\ call.key # <<>>
    /\ call.seenOs = prev.seenOs
    /\ Stable(call) /\ Stable(prev) /\ call.seenBlake = prev.seenBlake
    /\ call.result.pair[1] # prev.result.pair[1]

UnkeyedOps == {"read", "read_using_std", "read_str", "read_bytes"}

=============================================================================
